---- MODULE Spec2Model ----
(***************************************************************************)
(* A model of probe's extract command: process_file_for_extraction        *)
(* (src/src/extract/processor.rs) and handle_extract's parallel workers,   *)
(* sort, deduplication and output (src/src/extract/mod.rs); of the outline *)
(* and its grouping, the parser pool's use, the Go language handler        *)
(* (src/src/language/go.rs), the extraction formatter                      *)
(* (src/src/extract/formatter.rs) and the search and query commands        *)
(* (src/src/main.rs).  Each has its own specification.                     *)
(*                                                                         *)
(* A file is abstracted to its line count and the acceptable-parent blocks *)
(* of its syntax tree (0-based row ranges); a block's code is the sequence *)
(* of the 1-based numbers of the lines it holds.  Option<T> is a set with  *)
(* at most one element: {} is None, {x} is Some(x).                        *)
(***************************************************************************)
EXTENDS Integers, Sequences, FiniteSets, TLC

\* ------------------------------------------------------------------ bounds
\* Longest file handed to one call of process_file_for_extraction, in lines.
MaxLines == 2
\* Length of the text files of an extract run, in lines.
MaxTextLines == 3
\* Most acceptable-parent blocks in one file's syntax tree.
MaxBlocks == 2
\* Largest context_lines option.
MaxCtx == 1
\* Most entries of a specific_lines set.
MaxSpecific == 2
\* Most extraction requests handed to handle_extract.
MaxReq == 2
\* Most root-level nodes of an outlined file.
MaxNodes == 2
\* Most entries of a search's skipped_files.
MaxSkipped == 2
\* Most results handed to the formatter.
MaxFormatted == 2
\* Most nodes of a syntax tree find_parent_function walks.
MaxTree == 3
\* Width of usize in bits, scaled down; any width with 2^w > MaxTextLines + 1
\* orders the wrapped range sizes as 2^64 does.
UsizeBits == 8

\* --------------------------------------------------------------- helpers
None == {}
Some(x) == {x}
IsSome(o) == o # {}
Unwrap(o) == CHOOSE x \in o : TRUE

Min2(a, b) == IF a <= b THEN a ELSE b
Max2(a, b) == IF a >= b THEN a ELSE b
SetMin(S) == CHOOSE x \in S : \A y \in S : x <= y
SetMax(S) == CHOOSE x \in S : \A y \in S : x >= y

\* The lines s..e of a file as a sequence of line numbers (empty when e < s).
LinesOf(s, e) == [k \in 1..(e - s + 1) |-> s + k - 1]

\* A set of numbers as the ascending sequence Vec::sort leaves.
RECURSIVE SortedSeq(_)
SortedSeq(S) ==
    IF S = {} THEN <<>> ELSE <<SetMin(S)>> \o SortedSeq(S \ {SetMin(S)})

\* usize::clamp(min, max) asserts min <= max and panics otherwise.
ClampPanics(lo, hi) == lo > hi
Clamp(x, lo, hi) == IF x < lo THEN lo ELSE IF x > hi THEN hi ELSE x

\* lines[lo..hi] (hi exclusive, 0-based) panics unless lo <= hi <= len.
SlicePanics(lo, hi, len) == lo > hi \/ hi > len

\* ------------------------------------------------------------ the files
\* Row ranges <<start_row, end_row>> a syntax tree of a file of n lines can
\* hold: a block starts on a line of the file; its end row may be the row
\* after the last line (the position after a trailing newline).
RowRanges(n) == {<<sr, er>> \in (0..(n - 1)) \X (0..n) : sr <= er}

BoundedSubsets(S, k) == {T \in SUBSET S : Cardinality(T) <= k}

MissingFile == [exists |-> FALSE, line_count |-> 0, parse_ok |-> FALSE, ast |-> {}]

ExistingFiles ==
    {[exists |-> TRUE, line_count |-> n, parse_ok |-> p, ast |-> a] :
        n \in 0..MaxLines, p \in BOOLEAN, a \in BoundedSubsets(RowRanges(MaxLines), MaxBlocks)}

Files ==
    {MissingFile} \cup
    {f \in ExistingFiles : f.ast \subseteq RowRanges(f.line_count) /\ (f.parse_ok \/ f.ast = {})}

\* parse_file_for_code_blocks: for every line of interest the innermost
\* acceptable-parent block that holds it; Err when the file cannot be parsed.
BlockSize(b) == b[2] - b[1]
BlocksHolding(f, L) == {b \in f.ast : b[1] <= L - 1 /\ L - 1 <= b[2]}
InnermostHolding(f, L) ==
    {b \in BlocksHolding(f, L) : \A c \in BlocksHolding(f, L) : BlockSize(b) <= BlockSize(c)}
parse_file_for_code_blocks(f, needed_lines) ==
    [ok |-> f.parse_ok,
     blocks |-> IF f.parse_ok
                THEN UNION {InnermostHolding(f, L) : L \in needed_lines}
                ELSE {}]

\* ------------------------------------------- process_file_for_extraction
\* What one call returns: Ok(SearchResult), Err(..) or a panic, together
\* with the line set it handed to the AST resolver (when it called it).
Outcome(status, path, lines, node_type, code, matched_lines, called, needed) ==
    [status |-> status, file |-> path, lines |-> lines, node_type |-> node_type,
     code |-> code, matched_lines |-> matched_lines,
     resolver_called |-> called, needed_lines |-> needed]

OkResult(path, lines, node_type, code, matched_lines, called, needed) ==
    Outcome("Ok", path, lines, node_type, code, matched_lines, called, needed)
ErrResult(path) == Outcome("Err", path, <<0, 0>>, "", <<>>, None, FALSE, {})
PanicResult(path, called, needed) ==
    Outcome("Panic", path, <<0, 0>>, "", <<>>, None, called, needed)

\* let mut clamped_start = start.clamp(1, lines.len());
clamped_start(start, len) == Clamp(start, 1, len)

\* let mut clamped_end = end.clamp(clamped_start, lines.len()); followed by
\* the two corrections of lines 91-98.
clamped_end_from_one(end, cs, len) == Clamp(end, 1, len)
clamped_end(end, cs, len) ==
    LET ce == Clamp(end, cs, len)
        cs2 == IF cs > len THEN len ELSE cs
    IN  IF ce < cs2 THEN cs2 ELSE ce

\* min(block.start_row) .. max(block.end_row), the end held inside the file
\* and the start not after the end; 0-based rows.
max_end_unbounded(blocks, len) == SetMax({b[2] : b \in blocks})
max_end(blocks, len) == Min2(SetMax({b[2] : b \in blocks}), len - 1)
min_start(blocks, len) == Min2(SetMin({b[1] : b \in blocks}), max_end(blocks, len))

\* (merged_start, merged_end): the bounding block in 1-based line numbers.
merged_lines(blocks, len) == <<min_start(blocks, len) + 1, max_end(blocks, len) + 1>>

\* specific lines that fall into [first, last], relative to first, sorted.
relative_lines(lines_set, first, last) ==
    SortedSeq({line - first + 1 : line \in {l \in lines_set : l >= first /\ l <= last}})

\* The merged-AST arm shared by the three line modes.
MergedResult(path, blocks, len, node_type, matched_lines, needed) ==
    LET ml == merged_lines(blocks, len)
    IN  IF len = 0
        THEN PanicResult(path, TRUE, needed)
        ELSE OkResult(path, ml, node_type, LinesOf(ml[1], ml[2]), matched_lines, TRUE, needed)

\* The literal arm: lines[first - 1..last] of the file.
LiteralResult(path, first, last, len, node_type, matched_lines, needed) ==
    IF first = 0 \/ SlicePanics(first - 1, last, len)
    THEN PanicResult(path, TRUE, needed)
    ELSE OkResult(path, <<first, last>>, node_type, LinesOf(first, last), matched_lines, TRUE, needed)

\* Range mode: (Some(start), Some(end)).
RangeMode(f, path, start_line, end_line, specific_lines) ==
    LET len == f.line_count
        start == clamped_start(start_line, len)
        end == clamped_end(end_line, start, len)
        needed == (start..end) \cup (IF IsSome(specific_lines) THEN Unwrap(specific_lines) ELSE {})
        res == parse_file_for_code_blocks(f, needed)
        ml == merged_lines(res.blocks, len)
        rel == IF IsSome(specific_lines)
               THEN relative_lines(Unwrap(specific_lines), ml[1], ml[2])
               ELSE <<>>
        matched == IF rel # <<>> THEN Some(rel) ELSE None
    IN  IF ClampPanics(1, len)
        THEN PanicResult(path, FALSE, {})
        ELSE IF res.ok /\ res.blocks # {}
             THEN MergedResult(path, res.blocks, len, "merged_ast_range", matched, needed)
             ELSE LiteralResult(path, start, end, len, "range", None, needed)

\* The context window of the single-line fallback.
start_ctx_unguarded(line_num, context_lines) == line_num - context_lines
start_ctx(line_num, context_lines) ==
    IF line_num <= context_lines THEN 1 ELSE line_num - context_lines
end_ctx(line_num, context_lines, len) == Min2(line_num + context_lines, len)

\* Single-line mode: Some(start) only.
SingleLineMode(f, path, start_line, context_lines, specific_lines) ==
    LET len == f.line_count
        line_num == Clamp(start_line, 1, len)
        needed == {line_num} \cup (IF IsSome(specific_lines) THEN Unwrap(specific_lines) ELSE {})
        res == parse_file_for_code_blocks(f, needed)
    IN  IF ClampPanics(1, len)
        THEN PanicResult(path, FALSE, {})
        ELSE IF res.ok /\ res.blocks # {}
             THEN MergedResult(path, res.blocks, len, "merged_ast_line", None, needed)
             ELSE LiteralResult(path, start_ctx(line_num, context_lines),
                                end_ctx(line_num, context_lines, len), len, "context", None, needed)

\* The whole file: lines (1, lines.len()), code = content.
WholeFile(path, len) ==
    OkResult(path, <<1, len>>, "file", LinesOf(1, len), None, FALSE, {})

\* The clamped copy of the specific_lines set: 0 is dropped, a line past the
\* end becomes lines.len().
clamped_lines(lines_set, len) ==
    {IF line > len THEN Min2(line, len) ELSE line : line \in {l \in lines_set : l # 0}}

\* Specific-lines mode: no start line, Some(lines_set).
SpecificLinesMode(f, path, context_lines, lines_set0) ==
    LET len == f.line_count
        lines_set == clamped_lines(lines_set0, len)
        res == parse_file_for_code_blocks(f, lines_set)
        min_line == IF lines_set = {} THEN 1 ELSE SetMin(lines_set)
        max_line == IF lines_set = {} THEN len ELSE SetMax(lines_set)
        start == IF min_line <= context_lines THEN 1 ELSE min_line - context_lines
        end == Min2(max_line + context_lines, len)
        matched == IF lines_set # {} THEN Some(relative_lines(lines_set, start, end)) ELSE None
    IN  IF lines_set0 = {}
        THEN WholeFile(path, len)
        ELSE IF res.ok /\ res.blocks # {}
             THEN MergedResult(path, res.blocks, len, "merged_ast_specific_lines", None, lines_set)
             ELSE LiteralResult(path, start, end, len, "specific_lines", matched, lines_set)

\* find_symbol_in_file: the outermost acceptable block that declares the
\* symbol; an error when the tree holds none.
find_symbol_in_file(f, path) ==
    LET len == f.line_count
        outer == CHOOSE b \in f.ast : \A c \in f.ast :
                     BlockSize(b) > BlockSize(c) \/ (BlockSize(b) = BlockSize(c) /\ b[1] <= c[1])
    IN  IF f.parse_ok /\ f.ast # {}
        THEN OkResult(path, merged_lines({outer}, len), "symbol",
                      LinesOf(merged_lines({outer}, len)[1], merged_lines({outer}, len)[2]),
                      None, FALSE, {})
        ELSE ErrResult(path)

Mode_lines_before_symbol(f, a) ==
    IF ~f.exists THEN "missing"
    ELSE IF IsSome(a.start_line) /\ IsSome(a.end_line) THEN "range"
    ELSE IF IsSome(a.start_line) THEN "single"
    ELSE IF IsSome(a.symbol) THEN "symbol"
    ELSE IF IsSome(a.specific_lines) THEN "specific"
    ELSE "file"

\* The mode the arguments select, by the order of the if-chain.
Mode(f, a) ==
    IF ~f.exists THEN "missing"
    ELSE IF IsSome(a.symbol) THEN "symbol"
    ELSE IF IsSome(a.start_line) /\ IsSome(a.end_line) THEN "range"
    ELSE IF IsSome(a.start_line) THEN "single"
    ELSE IF IsSome(a.specific_lines) THEN "specific"
    ELSE "file"

process_file_for_extraction(f, a) ==
    LET m == Mode(f, a)
    IN  CASE m = "missing" -> ErrResult(a.path)
          [] m = "symbol" -> find_symbol_in_file(f, a.path)
          [] m = "range" ->
                RangeMode(f, a.path, Unwrap(a.start_line), Unwrap(a.end_line), a.specific_lines)
          [] m = "single" ->
                SingleLineMode(f, a.path, Unwrap(a.start_line), a.context_lines, a.specific_lines)
          [] m = "specific" ->
                SpecificLinesMode(f, a.path, a.context_lines, Unwrap(a.specific_lines))
          [] OTHER -> WholeFile(a.path, f.line_count)

\* ---------------------------------------------------------------- state
VARIABLES
    pf_file,    \* the file one call of process_file_for_extraction reads
    pf_args,    \* the arguments of that call
    pf_ret,     \* what the call returned
    fs,         \* handle_extract: the files on disk, by path
    format,     \* options.format
    file_paths, \* the parsed extraction requests (FilePathInfo), in order
    wstate,     \* per request: "todo", "done" or "panicked"
    results,    \* results_mutex, then the local results vector
    errors,     \* errors_mutex, then the local errors vector
    pc,         \* where the coordinator thread of handle_extract is
    stdout,     \* what handle_extract printed to standard output
    stderr,     \* the error lines the workers printed to standard error
    ret,        \* handle_extract's return value once it returned
    ol_file,        \* outline: the file, with the root-level nodes of its tree
    ol_allow_tests, \* outline: the allow_tests argument
    ol_ret,         \* outline: what extract_all_symbols_from_file returned
    ol_grouped,     \* outline: what group_symbols_by_type returned, once called
    hs_params,  \* search: the SearchParams of the run
    hs_probe,   \* search: what perform_probe returns for them
    hs_pc,      \* search: where handle_search is
    hs_out,     \* search: the calls and prints made so far, in order
    hs_ret,     \* search: handle_search's return value once it returned
    q_lang,     \* query: the arguments of the query command, --language among them
    q_norm,     \* query: the language handed to handle_query
    go_node,    \* Go handler: the syntax node a trait method is called on
    go_ret,     \* Go handler: the method called and what it returned
    fmt_in,     \* formatter: the arguments of format_extraction_internal
    fmt_out,    \* formatter: the string it returned
    pp_call,    \* parser pool: the function that runs and what it is called on
    pp_pc,      \* parser pool: where that function is
    pp_pool,    \* parser pool: the parsers obtained and handed back so far
    pp_ret,     \* parser pool: what the function returned
    fp_tree,    \* find_parent_function: the syntax tree, parents and kinds
    fp_node,    \* find_parent_function: the node it was called on
    fp_current, \* find_parent_function: the local variable current
    fp_ret      \* find_parent_function: where it is and what it returned

pfVars == <<pf_file, pf_args, pf_ret>>
heVars == <<fs, format, file_paths, wstate, results, errors, pc, stdout, stderr, ret>>
olVars == <<ol_file, ol_allow_tests, ol_ret, ol_grouped>>
hsVars == <<hs_params, hs_probe, hs_pc, hs_out, hs_ret>>
qVars == <<q_lang, q_norm>>
goVars == <<go_node, go_ret>>
fmtVars == <<fmt_in, fmt_out>>
ppVars == <<pp_call, pp_pc, pp_pool, pp_ret>>
fpVars == <<fp_tree, fp_node, fp_current, fp_ret>>
vars == <<pf_file, pf_args, pf_ret, fs, format, file_paths, wstate, results, errors, pc,
          stdout, stderr, ret, ol_file, ol_allow_tests, ol_ret, ol_grouped, hs_params, hs_probe,
          hs_pc, hs_out, hs_ret, q_lang, q_norm, go_node, go_ret, fmt_in, fmt_out,
          pp_call, pp_pc, pp_pool, pp_ret, fp_tree, fp_node, fp_current, fp_ret>>

\* The commands that are not running: nothing read, nothing called.
IdleGo ==
    /\ go_node = [kind |-> "comment", name |-> None, has_body |-> FALSE,
                  spec_name |-> FALSE, const_spec |-> FALSE]
    /\ go_ret = [method |-> "none", value |-> None]
IdleOutline ==
    /\ ol_file = [exists |-> FALSE, extension |-> "go", parser_ok |-> FALSE,
                  parse_ok |-> FALSE, nodes |-> <<>>]
    /\ ol_allow_tests = FALSE
    /\ ol_ret = [status |-> "NotCalled", symbols |-> <<>>]
    /\ ol_grouped = None
IdleSearch ==
    /\ hs_params = [strict_elastic_syntax |-> FALSE, pattern |-> "strict_ok",
                    exact |-> FALSE, format |-> "color"]
    /\ hs_probe = [status |-> "Ok", has_results |-> FALSE, skipped_files |-> <<>>,
                   limits_applied |-> FALSE, files_gone |-> FALSE,
                   cached_blocks_skipped |-> None,
                   files_skipped_early_termination |-> None]
    /\ hs_pc = "idle"
    /\ hs_out = <<>>
    /\ hs_ret = "none"
IdleQuery ==
    /\ q_lang = [language |-> None, allow_tests |-> FALSE, no_gitignore |-> FALSE]
    /\ q_norm = [called |-> FALSE, language |-> None]
IdleFormatter ==
    /\ fmt_in = [results |-> <<>>, format |-> "color", is_dry_run |-> FALSE]
    /\ fmt_out = None
IdlePool ==
    /\ pp_call = [function |-> "none", symbols |-> FALSE, exists |-> FALSE,
                  supported |-> FALSE, line_count |-> 0, parser_ok |-> FALSE,
                  parse_ok |-> FALSE]
    /\ pp_pc = "idle"
    /\ pp_pool = [obtained |-> 0, returned |-> 0]
    /\ pp_ret = "none"
IdleTree ==
    /\ fp_tree = [parent |-> <<None>>, kind |-> <<"source_file">>]
    /\ fp_node = 1
    /\ fp_current = 1
    /\ fp_ret = [status |-> "idle", value |-> None]

\* -------------------------------- one call of process_file_for_extraction
\* Line numbers a caller may pass for file f: 0, every line, one past the end.
LineArgs(f) == 0..(f.line_count + 1)
OptionOf(S) == {None} \cup {Some(x) : x \in S}

ArgsFor(f) ==
    [path : {"a.rs"},
     start_line : OptionOf(LineArgs(f)),
     end_line : OptionOf(LineArgs(f)),
     symbol : OptionOf({"sym"}),
     context_lines : 0..MaxCtx,
     specific_lines : OptionOf(BoundedSubsets(LineArgs(f), MaxSpecific))]

NoArgs ==
    [path |-> "a.rs", start_line |-> None, end_line |-> None, symbol |-> None,
     context_lines |-> 0, specific_lines |-> None]
NotCalled == Outcome("NotCalled", "a.rs", <<0, 0>>, "", <<>>, None, FALSE, {})

\* handle_extract at rest: nothing requested, nothing printed.
NoOutput == [formatted |-> None, error_summary |-> None]
IdleHE ==
    /\ fs = [p \in {"a.rs", "b.rs"} |-> MissingFile]
    /\ format = "color"
    /\ file_paths = <<>>
    /\ wstate = <<>>
    /\ results = <<>>
    /\ errors = <<>>
    /\ pc = "idle"
    /\ stdout = NoOutput
    /\ stderr = <<>>
    /\ ret = "none"

IdlePF ==
    /\ pf_file = MissingFile
    /\ pf_args = NoArgs
    /\ pf_ret = NotCalled

InitPF ==
    /\ pf_file \in Files
    /\ pf_args = NoArgs
    /\ pf_ret = NotCalled
    /\ IdleHE
    /\ IdleOutline /\ IdleSearch /\ IdleQuery /\ IdleGo /\ IdleFormatter /\ IdlePool /\ IdleTree

CallProcessFile ==
    /\ pf_ret.status = "NotCalled"
    /\ \E a \in ArgsFor(pf_file) :
          /\ pf_args' = a
          /\ pf_ret' = process_file_for_extraction(pf_file, a)
    /\ UNCHANGED pf_file
    /\ UNCHANGED <<heVars, olVars, hsVars, qVars, goVars, fmtVars, ppVars, fpVars>>

NextPF == CallProcessFile

SpecPF == InitPF /\ [][NextPF]_vars

\* ------------------------------------------------------- handle_extract
Paths == {"a.rs", "b.rs"}
\* String::cmp on the two paths.
PathRank(p) == IF p = "a.rs" THEN 1 ELSE 2

\* The output formats handle_extract tells apart, and a text format.
Formats == {"color", "json", "xml"}
IsStructured(fmt) == fmt = "json" \/ fmt = "xml"

\* Files of the extract runs: missing, empty, or MaxTextLines lines of plain
\* text (a tree without acceptable-parent blocks).
TextFile(n) == [exists |-> TRUE, line_count |-> n, parse_ok |-> TRUE, ast |-> {}]
ExtractFiles == {MissingFile, TextFile(0), TextFile(MaxTextLines)}

Request(path, start_line, end_line) ==
    [path |-> path, start_line |-> start_line, end_line |-> end_line, symbol |-> None,
     context_lines |-> 0, specific_lines |-> None]

\* The requests worth telling apart for a file: the whole file, and, when it
\* has lines, each of its ranges; one range for an empty file.
RequestsFor(disk, path) ==
    {Request(path, None, None)} \cup
    (IF disk[path].exists
     THEN {Request(path, Some(s), Some(e)) :
              <<s, e>> \in {r \in (1..Max2(1, disk[path].line_count)) \X
                                  (1..Max2(1, disk[path].line_count)) : r[1] <= r[2]}}
     ELSE {})

RequestLists(disk) ==
    UNION {[1..n -> UNION {RequestsFor(disk, p) : p \in Paths}] : n \in 1..MaxReq}

\* a.lines.1 - a.lines.0 on usize: wraps in a build without overflow checks.
Underflows(r) == r.lines[2] < r.lines[1]
range_size(r) ==
    IF Underflows(r)
    THEN (2 ^ UsizeBits) - (r.lines[1] - r.lines[2])
    ELSE r.lines[2] - r.lines[1]

\* The comparator of results.sort_by: a sorts before b.
SortsBefore_smallest_first(a, b) ==
    IF a.file # b.file
    THEN PathRank(a.file) < PathRank(b.file)
    ELSE range_size(a) < range_size(b)
SortsBefore(a, b) ==
    IF a.file # b.file
    THEN PathRank(a.file) < PathRank(b.file)
    ELSE range_size(b) < range_size(a)

\* Vec::sort_by is stable: equal entries keep their order.
RECURSIVE InsertStable(_, _)
InsertStable(sorted, x) ==
    IF sorted = <<>> THEN <<x>>
    ELSE IF SortsBefore(x, Head(sorted)) THEN <<x>> \o sorted
    ELSE <<Head(sorted)>> \o InsertStable(Tail(sorted), x)

RECURSIVE sort_by(_)
sort_by(rs) ==
    IF rs = <<>> THEN <<>>
    ELSE InsertStable(sort_by(SubSeq(rs, 1, Len(rs) - 1)), rs[Len(rs)])

\* The comparator subtracts for two entries of one file: an entry with
\* lines.1 < lines.0 next to another entry of its file underflows.
SortUnderflows(rs) ==
    \E i, j \in 1..Len(rs) : i # j /\ rs[i].file = rs[j].file /\ Underflows(rs[i])

\* result_j is contained within result_i (same file).
ContainedIn_strict_start(rj, ri) ==
    /\ rj.file = ri.file
    /\ rj.lines[1] > ri.lines[1]
    /\ rj.lines[2] <= ri.lines[2]
ContainedIn_start_only(rj, ri) ==
    /\ rj.file = ri.file
    /\ rj.lines[1] >= ri.lines[1]
ContainedIn(rj, ri) ==
    /\ rj.file = ri.file
    /\ rj.lines[1] >= ri.lines[1]
    /\ rj.lines[2] <= ri.lines[2]

ExactKey(r) == <<r.file, r.lines[1], r.lines[2]>>

\* The loop over i: to_retain and seen_exact after the entries i..Len(rs).
RECURSIVE RetainFrom(_, _, _, _)
RetainFrom(rs, i, to_retain, seen_exact) ==
    IF i > Len(rs) THEN to_retain
    ELSE IF ~to_retain[i] THEN RetainFrom(rs, i + 1, to_retain, seen_exact)
    ELSE IF ExactKey(rs[i]) \in seen_exact
         THEN RetainFrom(rs, i + 1, [to_retain EXCEPT ![i] = FALSE], seen_exact)
         ELSE RetainFrom(rs, i + 1,
                         [j \in 1..Len(rs) |->
                             IF j > i /\ to_retain[j] /\ ContainedIn(rs[j], rs[i])
                             THEN FALSE ELSE to_retain[j]],
                         seen_exact \cup {ExactKey(rs[i])})

RECURSIVE Retained(_, _, _)
Retained(rs, to_retain, i) ==
    IF i > Len(rs) THEN <<>>
    ELSE (IF to_retain[i] THEN <<rs[i]>> ELSE <<>>) \o Retained(rs, to_retain, i + 1)

\* The deduplication of the sorted results: new_results.
deduplicate(rs) ==
    Retained(rs, RetainFrom(rs, 1, [i \in 1..Len(rs) |-> TRUE], {}), 1)

\* ------------------------------------------- format_extraction_internal
\* The formatted output, by what it shows: per result the file, and where
\* they are printed the line range, the node type and the code; then the
\* summary with the count and, where printed, the byte and token totals.
\* A line of code stands for its bytes.  original_input, system_prompt and
\* user_instructions are not given.
RECURSIVE SumOfLens(_)
SumOfLens(codes) ==
    IF codes = <<>> THEN 0 ELSE Len(Head(codes)) + SumOfLens(Tail(codes))

RECURSIVE SumOfSet(_)
SumOfSet(S) ==
    IF S = {} THEN 0 ELSE LET c == CHOOSE x \in S : TRUE IN Len(c) + SumOfSet(S \ {c})

\* Equal blocks are tokenized once.
sum_tokens_with_deduplication(code_blocks) ==
    SumOfSet({code_blocks[k] : k \in 1..Len(code_blocks)})

FormattedEntry(r, lines_shown, type_shown, code_shown) ==
    [file |-> r.file,
     lines |-> IF lines_shown THEN Some(r.lines) ELSE None,
     node_type |-> IF type_shown THEN Some(r.node_type) ELSE None,
     code |-> IF code_shown THEN Some(r.code) ELSE None]

Summary(rs, with_totals) ==
    LET code_blocks == [k \in 1..Len(rs) |-> rs[k].code]
    IN  [count |-> Len(rs),
         total_bytes |-> IF with_totals THEN Some(SumOfLens(code_blocks)) ELSE None,
         total_tokens |-> IF with_totals
                          THEN Some(sum_tokens_with_deduplication(code_blocks))
                          ELSE None]

\* The outline-diff renderer is given the results and the original input
\* only: it renders every block's code and prints no totals.
format_outline_diff(rs) ==
    [format |-> "outline-diff",
     entries |-> [k \in 1..Len(rs) |-> FormattedEntry(rs[k], TRUE, TRUE, TRUE)],
     summary |-> None]

format_extraction_internal(rs, fmt, is_dry_run) ==
    IF fmt = "outline-diff" THEN format_outline_diff(rs)
    ELSE IF fmt = "json"
    THEN [format |-> fmt,
          entries |-> [k \in 1..Len(rs) |-> FormattedEntry(rs[k], TRUE, TRUE, ~is_dry_run)],
          summary |-> Some(Summary(rs, ~is_dry_run))]
    ELSE IF fmt = "xml"
    THEN [format |-> fmt,
          entries |-> [k \in 1..Len(rs) |->
                          FormattedEntry(rs[k], rs[k].node_type # "file",
                                         rs[k].node_type \notin {"file", "context"},
                                         ~is_dry_run)],
          summary |-> Some(Summary(rs, ~is_dry_run))]
    ELSE [format |-> fmt,
          entries |-> [k \in 1..Len(rs) |->
                          FormattedEntry(rs[k], rs[k].node_type # "file",
                                         rs[k].node_type \notin {"file", "context"},
                                         ~is_dry_run)],
          summary |-> IF rs # <<>> THEN Some(Summary(rs, ~is_dry_run)) ELSE None]

format_extraction_dry_run(rs, fmt) == format_extraction_internal(rs, fmt, TRUE)

format_extraction_results(rs, fmt) == format_extraction_internal(rs, fmt, FALSE)

\* "Error processing file {path}: {e}"
error_msg(path) == <<"Error processing file", path>>

Init ==
    /\ pf_file = MissingFile
    /\ pf_args = NoArgs
    /\ pf_ret = NotCalled
    /\ fs \in [Paths -> ExtractFiles]
    /\ format \in Formats
    /\ file_paths \in RequestLists(fs)
    /\ wstate = [i \in 1..Len(file_paths) |-> "todo"]
    /\ results = <<>>
    /\ errors = <<>>
    /\ pc = "parallel"
    /\ stdout = NoOutput
    /\ stderr = <<>>
    /\ ret = "none"
    /\ IdleOutline /\ IdleSearch /\ IdleQuery /\ IdleGo /\ IdleFormatter /\ IdlePool /\ IdleTree

\* One item of file_params.par_iter().for_each: process the file, then push
\* the result or the error under its mutex.
Worker_error_aborts(i) ==
    /\ pc = "parallel"
    /\ wstate[i] = "todo"
    /\ LET r == process_file_for_extraction(fs[file_paths[i].path], file_paths[i])
       IN  \/ /\ r.status = "Ok"
              /\ results' = Append(results, r)
              /\ wstate' = [wstate EXCEPT ![i] = "done"]
              /\ UNCHANGED <<errors, stderr>>
           \/ /\ r.status # "Ok"
              /\ wstate' = [wstate EXCEPT ![i] = "panicked"]
              /\ UNCHANGED <<results, errors, stderr>>
    /\ UNCHANGED <<fs, format, file_paths, pc, stdout, ret>>
    /\ UNCHANGED <<pfVars, olVars, hsVars, qVars, goVars, fmtVars, ppVars, fpVars>>
Worker(i) ==
    /\ pc = "parallel"
    /\ wstate[i] = "todo"
    /\ LET r == process_file_for_extraction(fs[file_paths[i].path], file_paths[i])
       IN  \/ /\ r.status = "Ok"
              /\ results' = Append(results, r)
              /\ wstate' = [wstate EXCEPT ![i] = "done"]
              /\ UNCHANGED <<errors, stderr>>
           \/ /\ r.status = "Err"
              /\ errors' = Append(errors, error_msg(file_paths[i].path))
              /\ stderr' = IF IsStructured(format)
                           THEN stderr
                           ELSE Append(stderr, error_msg(file_paths[i].path))
              /\ wstate' = [wstate EXCEPT ![i] = "done"]
              /\ UNCHANGED results
           \/ /\ r.status = "Panic"
              /\ wstate' = [wstate EXCEPT ![i] = "panicked"]
              /\ UNCHANGED <<results, errors, stderr>>
    /\ UNCHANGED <<fs, format, file_paths, pc, stdout, ret>>
    /\ UNCHANGED <<pfVars, olVars, hsVars, qVars, goVars, fmtVars, ppVars, fpVars>>

\* A panic of a worker is resumed on the thread that called for_each.
PropagatePanic ==
    /\ pc = "parallel"
    /\ \E i \in 1..Len(file_paths) : wstate[i] = "panicked"
    /\ pc' = "panicked"
    /\ UNCHANGED <<fs, format, file_paths, wstate, results, errors, stdout, stderr, ret>>
    /\ UNCHANGED <<pfVars, olVars, hsVars, qVars, goVars, fmtVars, ppVars, fpVars>>

Join_without_barrier ==
    /\ pc = "parallel"
    /\ \E i \in 1..Len(file_paths) : wstate[i] = "done"
    /\ \A i \in 1..Len(file_paths) : wstate[i] # "panicked"
    /\ pc' = "sort"
    /\ UNCHANGED <<fs, format, file_paths, wstate, results, errors, stdout, stderr, ret>>
    /\ UNCHANGED <<pfVars, olVars, hsVars, qVars, goVars, fmtVars, ppVars, fpVars>>

\* for_each returns when every item is done; the vectors leave their mutexes.
Join ==
    /\ pc = "parallel"
    /\ \A i \in 1..Len(file_paths) : wstate[i] = "done"
    /\ pc' = "sort"
    /\ UNCHANGED <<fs, format, file_paths, wstate, results, errors, stdout, stderr, ret>>
    /\ UNCHANGED <<pfVars, olVars, hsVars, qVars, goVars, fmtVars, ppVars, fpVars>>

\* results.sort_by(..): by file, then by range size, largest first.  With
\* overflow checks the subtraction panics where it would wrap.
SortResults ==
    /\ pc = "sort"
    /\ \/ /\ results' = sort_by(results)
          /\ pc' = "dedup"
       \/ /\ SortUnderflows(results)
          /\ pc' = "panicked"
          /\ UNCHANGED results
    /\ UNCHANGED <<fs, format, file_paths, wstate, errors, stdout, stderr, ret>>
    /\ UNCHANGED <<pfVars, olVars, hsVars, qVars, goVars, fmtVars, ppVars, fpVars>>

Deduplicate ==
    /\ pc = "dedup"
    /\ results' = deduplicate(results)
    /\ pc' = "format"
    /\ UNCHANGED <<fs, format, file_paths, wstate, errors, stdout, stderr, ret>>
    /\ UNCHANGED <<pfVars, olVars, hsVars, qVars, goVars, fmtVars, ppVars, fpVars>>

\* Format the results and print them to standard output (to_clipboard unset),
\* print the error summary for a text format, return Ok(()).
Emit ==
    /\ pc = "format"
    /\ stdout' = [formatted |-> Some(format_extraction_results(results, format)),
                  error_summary |-> IF errors # <<>> /\ ~IsStructured(format)
                                    THEN Some(Len(errors)) ELSE None]
    /\ ret' = "Ok"
    /\ pc' = "done"
    /\ UNCHANGED <<fs, format, file_paths, wstate, results, errors, stderr>>
    /\ UNCHANGED <<pfVars, olVars, hsVars, qVars, goVars, fmtVars, ppVars, fpVars>>

Next ==
    \/ \E i \in 1..Len(file_paths) : Worker(i)
    \/ PropagatePanic
    \/ Join
    \/ SortResults
    \/ Deduplicate
    \/ Emit

Spec == Init /\ [][Next]_vars

\* ------------------------------------ claims on process_file_for_extraction
PFCalled == pf_ret.status # "NotCalled"
PFMode == Mode(pf_file, pf_args)
PFLen == pf_file.line_count
\* What the AST resolver answered in the call, when it was called.
PFResolved == parse_file_for_code_blocks(pf_file, pf_ret.needed_lines)
PFFoundBlocks == pf_ret.resolver_called /\ PFResolved.ok /\ PFResolved.blocks # {}
PFFoundNothing == pf_ret.resolver_called /\ (~PFResolved.ok \/ PFResolved.blocks = {})

\* C1: for an existing file, whatever start_line, end_line and specific_lines
\* are, the call in range, single-line and specific-lines mode returns Ok:
\* out-of-range lines are clamped and never end in an error or a panic.
C1_ClampedNeverFails ==
    (PFCalled /\ PFMode \in {"range", "single", "specific"}) => pf_ret.status = "Ok"

\* C2: every block returned in range, single-line, specific-lines and
\* whole-file mode lies in its file: 1 <= lines.start <= lines.end <= line_count.
C2_BlockInsideFile ==
    (PFCalled /\ PFMode \in {"range", "single", "specific", "file"} /\ pf_ret.status = "Ok")
        => /\ 1 <= pf_ret.lines[1]
           /\ pf_ret.lines[1] <= pf_ret.lines[2]
           /\ pf_ret.lines[2] <= PFLen

\* C5: in range mode, when the resolver returns blocks, the result is the one
\* block "merged_ast_range" from the least start to the greatest end of the
\* blocks (1-based), the end limited to the last line, with those lines as code.
C5_MergedRange ==
    (PFCalled /\ PFMode = "range" /\ PFFoundBlocks)
        => LET first == SetMin({b[1] : b \in PFResolved.blocks}) + 1
               last == Min2(SetMax({b[2] : b \in PFResolved.blocks}) + 1, PFLen)
           IN  /\ pf_ret.status = "Ok"
               /\ pf_ret.node_type = "merged_ast_range"
               /\ pf_ret.lines = <<first, last>>
               /\ pf_ret.code = [k \in 1..(last - first + 1) |-> first + k - 1]

\* C5 witness: two blocks merged, the later one ending past the last line.
C5_Witness ==
    /\ PFCalled /\ PFMode = "range" /\ PFFoundBlocks
    /\ Cardinality(PFResolved.blocks) >= 2
    /\ \E b \in PFResolved.blocks : b[2] = PFLen
    /\ pf_ret.lines[1] < pf_ret.lines[2]
    /\ pf_ret.lines[2] = PFLen

\* C6: in range mode, when the resolver finds no block or fails, the result is
\* the literal block "range" with lines (s, e), s = start clamped to
\* [1, line_count], e = end clamped to [s, line_count], and the lines s..e as code.
C6_LiteralRange ==
    (PFCalled /\ PFMode = "range" /\ PFFoundNothing)
        => LET s == Max2(1, Min2(Unwrap(pf_args.start_line), PFLen))
               e == Max2(s, Min2(Unwrap(pf_args.end_line), PFLen))
           IN  /\ pf_ret.status = "Ok"
               /\ pf_ret.node_type = "range"
               /\ pf_ret.lines = <<s, e>>
               /\ pf_ret.code = [k \in 1..(e - s + 1) |-> s + k - 1]

\* C6 witness: end < start, answered with the single line s.
C6_Witness ==
    /\ PFCalled /\ PFMode = "range" /\ PFFoundNothing
    /\ Unwrap(pf_args.end_line) < Unwrap(pf_args.start_line)
    /\ Unwrap(pf_args.end_line) >= 1
    /\ Unwrap(pf_args.start_line) <= PFLen
    /\ pf_ret.lines = <<Unwrap(pf_args.start_line), Unwrap(pf_args.start_line)>>

Answer(i) == process_file_for_extraction(fs[file_paths[i].path], file_paths[i])
Requests == 1..Len(file_paths)
OkRequests == {i \in Requests : Answer(i).status = "Ok"}
ErrRequests == {i \in Requests : Answer(i).status = "Err"}
Deduplicated == pc \in {"format", "done"}

\* Range a holds range b: a.start <= b.start and b.end <= a.end.
Holds(a, b) == a.lines[1] <= b.lines[1] /\ b.lines[2] <= a.lines[2]

\* C3: after the deduplication no two distinct entries of one file have one
\* range inside the other; in particular none share (file, start, end).
C3_NoNestedEntries ==
    Deduplicated =>
        \A i, j \in 1..Len(results) :
            (i # j /\ results[i].file = results[j].file) => ~Holds(results[i], results[j])

\* C3 witness: two requests with the same (file, start, end) left one entry.
C3_Witness ==
    /\ pc = "done"
    /\ Len(results) = 1
    /\ \E i, j \in OkRequests :
          i # j /\ ExactKey(Answer(i)) = ExactKey(Answer(j)) /\ Answer(i).lines[1] <= Answer(i).lines[2]

\* C4: the deduplication keeps exactly the outermost blocks: an answer is
\* dropped if and only if another answer of its file has a different range
\* that holds it; of answers with the same (file, start, end) exactly one is
\* kept; nothing else is dropped and nothing is invented.
C4_KeepsOutermost ==
    Deduplicated =>
        LET answers == [i \in Requests |-> Answer(i)]
            ok == {i \in Requests : answers[i].status = "Ok"}
        IN  /\ DOMAIN answers = Requests
            /\ \A i \in ok :
                  LET outer == \E j \in ok :
                                  /\ answers[j].file = answers[i].file
                                  /\ ExactKey(answers[j]) # ExactKey(answers[i])
                                  /\ Holds(answers[j], answers[i])
                      kept == {k \in 1..Len(results) :
                                  ExactKey(results[k]) = ExactKey(answers[i])}
                  IN  Cardinality(kept) = (IF outer THEN 0 ELSE 1)
            /\ \A k \in 1..Len(results) :
                  \E i \in ok : ExactKey(results[k]) = ExactKey(answers[i])

\* C4 witness: of two ranges of one file the inner one was dropped.
C4_Witness ==
    /\ pc = "done"
    /\ Len(results) = 1
    /\ \E i, j \in OkRequests :
          /\ Answer(i).file = Answer(j).file
          /\ ExactKey(Answer(i)) # ExactKey(Answer(j))
          /\ Holds(Answer(i), Answer(j))
          /\ ExactKey(results[1]) = ExactKey(Answer(i))

\* C8: a request whose file is missing never aborts handle_extract: only a
\* panic does; the run ends with Ok, one collected error per failed request,
\* and the deduplicated, formatted blocks of all other requests on stdout.
C8_ErrorsDoNotAbort ==
    /\ pc = "panicked" =>
          \/ \E i \in Requests : Answer(i).status = "Panic"
          \/ SortUnderflows(results)
    /\ pc \in {"sort", "dedup", "format", "done"} =>
          LET answers == [i \in Requests |-> Answer(i)]
              ok == {i \in Requests : answers[i].status = "Ok"}
              err == {i \in Requests : answers[i].status = "Err"}
          IN  /\ DOMAIN answers = Requests
              /\ Len(errors) = Cardinality(err)
              /\ \A i \in err :
                    \E k \in 1..Len(errors) : errors[k] = error_msg(file_paths[i].path)
              /\ \A i \in ok : \E k \in 1..Len(results) :
                    results[k].file = answers[i].file /\ Holds(results[k], answers[i])
    /\ pc = "done" =>
          /\ ret = "Ok"
          /\ stdout.formatted = Some(format_extraction_results(results, format))

\* C8 witness: one request failed, another one was extracted and printed.
C8_Witness ==
    /\ pc = "done"
    /\ ret = "Ok"
    /\ ErrRequests # {}
    /\ OkRequests # {}
    /\ Len(Unwrap(stdout.formatted).entries) >= 1

\* C9: every collected error is surfaced in the output of the command, for
\* every format: its message on the standard error or the error summary.
C9_ErrorsSurfaced ==
    pc = "done" =>
        \A k \in 1..Len(errors) :
            \/ \E m \in 1..Len(stderr) : stderr[m] = errors[k]
            \/ stdout.error_summary = Some(Len(errors))

\* The results of the run whose workers push in the order of the requests.
RECURSIVE InRequestOrder(_)
InRequestOrder(n) ==
    IF n = 0 THEN <<>>
    ELSE InRequestOrder(n - 1) \o (IF n \in OkRequests THEN <<Answer(n)>> ELSE <<>>)

\* C10: for a fixed request list and fixed files the deduplicated results are
\* the same, entry by entry and in the same order, under every interleaving
\* of the workers: they are those of the run that pushes in request order.
C10_SameUnderEveryInterleaving ==
    Deduplicated => results = deduplicate(sort_by(InRequestOrder(Len(file_paths))))


\* C20: sorting, deduplication and formatting start only after every request
\* has finished; when they start, every request has pushed exactly one entry,
\* its result or its error: |results| + |errors| is the number of requests.
C20_BarrierBeforeDedup ==
    /\ pc \in {"sort", "dedup", "format", "done"} =>
          \A i \in Requests : wstate[i] = "done"
    /\ pc \in {"sort", "dedup"} =>
          LET answers == [i \in Requests |-> Answer(i)]
          IN  /\ DOMAIN answers = Requests
              /\ Len(results) + Len(errors) = Len(file_paths)
              /\ \A i \in Requests :
                    IF answers[i].status = "Ok"
                    THEN Cardinality({k \in 1..Len(results) : results[k] = answers[i]})
                         = Cardinality({j \in Requests : answers[j] = answers[i]})
                    ELSE Cardinality({k \in 1..Len(errors) :
                                          errors[k] = error_msg(file_paths[i].path)})
                         = Cardinality({j \in Requests :
                                          /\ answers[j].status = "Err"
                                          /\ file_paths[j].path = file_paths[i].path})

\* C20 witness: two requests, one extracted and one failed, both pushed when
\* the sort starts.
C20_Witness ==
    /\ pc = "sort"
    /\ Len(file_paths) = 2
    /\ Len(results) = 1 /\ Len(errors) = 1

\* The (file, line) pairs the blocks of a result list cover.
Covered(rs) ==
    UNION {{<<rs[k].file, l>> : l \in rs[k].lines[1]..rs[k].lines[2]} : k \in 1..Len(rs)}

\* C28: every block the deduplication removes lies inside the line range of
\* a block of its file that is kept, so the results cover the same
\* (file, line) pairs before and after the deduplication.
C28_RemovedInsideKept ==
    [][(pc = "dedup" /\ pc' = "format") =>
          /\ \A i \in 1..Len(results) :
                \E k \in 1..Len(results') :
                    /\ results'[k].file = results[i].file
                    /\ results'[k].lines[1] <= results[i].lines[1]
                    /\ results[i].lines[2] <= results'[k].lines[2]
          /\ \A k \in 1..Len(results') :
                \E i \in 1..Len(results) : results[i] = results'[k]
          /\ Covered(results') = Covered(results)]_vars

\* C28 witness: of two blocks of one file, one inside the other, the
\* deduplication has just removed the inner one.
C28_Witness ==
    /\ pc = "format"
    /\ Len(file_paths) = 2
    /\ Len(results) = 1
    /\ \E i, j \in OkRequests :
          /\ i # j
          /\ Answer(i).file = Answer(j).file
          /\ Answer(i).lines[1] < Answer(j).lines[1]
          /\ Answer(j).lines[2] <= Answer(i).lines[2]
          /\ results[1].lines = Answer(i).lines

\* C29: every result process_file_for_extraction hands to handle_extract has
\* lines.1 >= lines.0, so the range size lines.1 - lines.0 computed on
\* unsigned integers by the sort comparator never underflows.
C29_RangeSizeNeverUnderflows ==
    /\ \A k \in 1..Len(results) : results[k].lines[2] >= results[k].lines[1]
    /\ pc = "sort" => ~SortUnderflows(results)

\* C14: the call picks one mode by a fixed priority: missing file, symbol
\* (line arguments ignored), start and end, start alone, a non-empty
\* specific_lines set, and otherwise the entire file as node type "file"
\* with lines (1, line_count).
C14_ModePriority ==
    PFCalled =>
        LET a == pf_args
            ok == pf_ret.status = "Ok"
            \* a range or a single line on an empty file ends in a panic
            panicked == pf_ret.status = "Panic" /\ PFLen = 0
            no_lines == [a EXCEPT !.start_line = None, !.end_line = None,
                                  !.specific_lines = None]
        IN  IF ~pf_file.exists THEN pf_ret.status = "Err"
            ELSE IF a.symbol # None
                 THEN /\ pf_ret = process_file_for_extraction(pf_file, no_lines)
                      /\ ok => pf_ret.node_type = "symbol"
                      /\ pf_ret.status \in {"Ok", "Err"}
            ELSE IF a.start_line # None /\ a.end_line # None
                 THEN \/ ok /\ pf_ret.node_type \in {"merged_ast_range", "range"}
                      \/ panicked
            ELSE IF a.start_line # None
                 THEN \/ ok /\ pf_ret.node_type \in {"merged_ast_line", "context"}
                      \/ panicked
            ELSE IF a.specific_lines # None /\ Unwrap(a.specific_lines) # {}
                 THEN ok /\ pf_ret.node_type \in {"merged_ast_specific_lines", "specific_lines"}
            ELSE /\ ok
                 /\ pf_ret.node_type = "file"
                 /\ pf_ret.lines = <<1, PFLen>>

\* C14 witness: a symbol given together with a start and an end line is
\* looked up as a symbol.
C14_Witness ==
    /\ PFCalled
    /\ pf_args.symbol # None /\ pf_args.start_line # None /\ pf_args.end_line # None
    /\ pf_ret.status = "Ok" /\ pf_ret.node_type = "symbol"

\* The line numbers the arguments request: the range or the line, and the
\* specific_lines.
PFSpecific == IF IsSome(pf_args.specific_lines) THEN Unwrap(pf_args.specific_lines) ELSE {}
PFInLineMode == PFCalled /\ PFMode \in {"range", "single", "specific"}

\* C21: every line number handed to the AST resolver in range, single-line
\* and specific-lines mode lies in 1..line_count, those taken from
\* specific_lines included; a requested line 0 is handed over as 1 and a line
\* past the end as line_count.
C21_ResolverLinesInFile ==
    (PFInLineMode /\ pf_ret.resolver_called) =>
        /\ \A l \in pf_ret.needed_lines : 1 <= l /\ l <= PFLen
        /\ \A l \in PFSpecific :
              Max2(1, Min2(l, PFLen)) \in pf_ret.needed_lines

\* C30: in range mode, when the resolver returns at least one block, the
\* merged block holds every line of the clamped requested range:
\* merged_start <= start and end <= merged_end.
C30_MergedHoldsRange ==
    (PFCalled /\ PFMode = "range" /\ PFFoundBlocks /\ pf_ret.status = "Ok") =>
        LET start == Max2(1, Min2(Unwrap(pf_args.start_line), PFLen))
            end == Max2(start, Min2(Unwrap(pf_args.end_line), PFLen))
        IN  /\ pf_ret.lines[1] <= start
            /\ end <= pf_ret.lines[2]

\* The requested specific lines as the mode takes them: specific-lines mode
\* works on its clamped copy, range mode on the set as given.
PFRequestedLines ==
    IF PFMode = "specific" THEN clamped_lines(PFSpecific, PFLen) ELSE PFSpecific

\* C22: a result's matched_lines are strictly ascending, every entry r is in
\* 1..(lines.end - lines.start + 1), and lines.start + r - 1 is a requested
\* specific line; in the specific-lines fallback every clamped requested line
\* has exactly one entry.
C22_MatchedLines ==
    (PFCalled /\ pf_ret.status = "Ok" /\ IsSome(pf_ret.matched_lines)) =>
        LET ml == Unwrap(pf_ret.matched_lines)
            s == pf_ret.lines[1]
            e == pf_ret.lines[2]
        IN  /\ \A i, j \in 1..Len(ml) : i < j => ml[i] < ml[j]
            /\ \A i \in 1..Len(ml) : 1 <= ml[i] /\ ml[i] <= e - s + 1
            /\ \A i \in 1..Len(ml) : (s + ml[i] - 1) \in PFRequestedLines
            /\ pf_ret.node_type = "specific_lines" =>
                  \A l \in PFRequestedLines :
                      Cardinality({i \in 1..Len(ml) : s + ml[i] - 1 = l}) = 1

\* ============================================================ Go handler
\* A syntax node as the Go handler sees it: its kind, the text of its child
\* of kind identifier (a function's name), whether it has a body field,
\* whether a type_spec child with a name field exists, and whether
\* child_by_field_name("const_spec") finds a spec with a name.
GoKinds ==
    {"function_declaration", "method_declaration", "type_declaration", "struct_type",
     "interface_type", "const_declaration", "var_declaration", "const_spec", "var_spec",
     "short_var_declaration", "type_spec", "import_declaration", "package_clause",
     "comment", "block", "call_expression"}

Names ==
    {<<"T", "e", "s", "t", "A">>, <<"T", "e", "s", "t">>, <<"T", "e", "s">>,
     <<"t", "e", "s", "t", "A">>, <<"m", "a", "i", "n">>}

GoNodes ==
    [kind : GoKinds, name : OptionOf(Names), has_body : BOOLEAN,
     spec_name : BOOLEAN, const_spec : BOOLEAN]

starts_with(s, prefix) ==
    /\ Len(s) >= Len(prefix)
    /\ SubSeq(s, 1, Len(prefix)) = prefix

is_acceptable_parent(node) ==
    node.kind \in {"function_declaration", "method_declaration", "type_declaration",
                   "struct_type", "interface_type", "const_declaration",
                   "var_declaration", "const_spec", "var_spec",
                   "short_var_declaration", "type_spec"}

is_test_node_never(node) == FALSE

is_test_node(node) ==
    /\ node.kind = "function_declaration"
    /\ IsSome(node.name)
    /\ starts_with(Unwrap(node.name), <<"T", "e", "s", "t">>)

\* The signature is modelled by its leading keyword and the name it shows.
get_symbol_signature(node) ==
    CASE node.kind = "function_declaration" -> Some(<<"func", node.name, node.has_body>>)
      [] node.kind = "type_declaration" ->
            IF node.spec_name THEN Some(<<"type">>) ELSE None
      [] node.kind = "const_declaration" ->
            IF node.const_spec THEN Some(<<"const">>) ELSE None
      [] OTHER -> None

InitGo ==
    /\ go_node \in GoNodes
    /\ go_ret = [method |-> "none", value |-> None]
    /\ IdlePF /\ IdleHE /\ IdleOutline /\ IdleSearch /\ IdleQuery /\ IdleFormatter /\ IdlePool /\ IdleTree

CallIsAcceptableParent ==
    /\ go_ret.method = "none"
    /\ go_ret' = [method |-> "is_acceptable_parent", value |-> Some(is_acceptable_parent(go_node))]
    /\ UNCHANGED <<go_node, pfVars, heVars, olVars, hsVars, qVars, fmtVars, ppVars, fpVars>>

CallIsTestNode ==
    /\ go_ret.method = "none"
    /\ go_ret' = [method |-> "is_test_node", value |-> Some(is_test_node(go_node))]
    /\ UNCHANGED <<go_node, pfVars, heVars, olVars, hsVars, qVars, fmtVars, ppVars, fpVars>>

CallGetSymbolSignature ==
    /\ go_ret.method = "none"
    /\ go_ret' = [method |-> "get_symbol_signature", value |-> get_symbol_signature(go_node)]
    /\ UNCHANGED <<go_node, pfVars, heVars, olVars, hsVars, qVars, fmtVars, ppVars, fpVars>>

NextGo == CallIsAcceptableParent \/ CallIsTestNode \/ CallGetSymbolSignature

SpecGo == InitGo /\ [][NextGo]_vars

\* The kinds the specification lists as acceptable parents for Go.
ListedGoParents ==
    {"function_declaration", "method_declaration", "type_declaration", "struct_type",
     "interface_type", "const_declaration", "var_declaration", "type_spec"}

\* C13: is_acceptable_parent holds for a Go node exactly when its kind is one
\* of the eight listed kinds.
C13_ExactlyListedKinds ==
    go_ret.method = "is_acceptable_parent" =>
        (Unwrap(go_ret.value) <=> go_node.kind \in ListedGoParents)


\* ======================================== extract_all_symbols_from_file
\* The children of a Go file's root node: a declaration's kind with the
\* attributes the handler reads, and the number of rows it spans beyond its
\* first one.  A method's name is a field_identifier, not an identifier.
RootNodes ==
    { n \in [kind : {"function_declaration", "method_declaration", "type_declaration",
                     "const_declaration", "var_declaration", "import_declaration",
                     "comment"},
             name : OptionOf(Names), has_body : BOOLEAN, spec_name : BOOLEAN,
             const_spec : BOOLEAN, len : 0..1] :
        /\ IsSome(n.name) <=> n.kind = "function_declaration"
        /\ n.has_body <=> n.kind = "function_declaration"
        /\ n.spec_name => n.kind = "type_declaration"
        /\ n.const_spec => n.kind = "const_declaration" }

NodeLists == UNION { [1..k -> RootNodes] : k \in 0..MaxNodes }

OutlineFile(exists, extension, parser_ok, parse_ok, nodes) ==
    [exists |-> exists, extension |-> extension, parser_ok |-> parser_ok,
     parse_ok |-> parse_ok, nodes |-> nodes]

OutlineFiles ==
    {OutlineFile(FALSE, "go", FALSE, FALSE, <<>>),
     OutlineFile(TRUE, "txt", FALSE, FALSE, <<>>),
     OutlineFile(TRUE, "go", FALSE, FALSE, <<>>),
     OutlineFile(TRUE, "go", TRUE, FALSE, <<>>)}
    \cup {OutlineFile(TRUE, "go", TRUE, TRUE, ns) : ns \in NodeLists}

\* Root children follow each other in the file: child i starts on row 2(i-1).
start_position_row(i) == 2 * (i - 1)
end_position_row(nodes, i) == start_position_row(i) + nodes[i].len
NodeLines(nodes, i) == <<start_position_row(i) + 1, end_position_row(nodes, i) + 1>>

SymbolResult(nodes, i) ==
    [file |-> "a.go", lines |-> NodeLines(nodes, i), node_type |-> nodes[i].kind,
     code |-> <<>>, symbol_signature |-> get_symbol_signature(nodes[i])]

RECURSIVE InsertByStartLine(_, _)
InsertByStartLine(sorted, r) ==
    IF sorted = <<>> THEN <<r>>
    ELSE IF r.lines[1] < sorted[Len(sorted)].lines[1]
         THEN Append(InsertByStartLine(SubSeq(sorted, 1, Len(sorted) - 1), r),
                     sorted[Len(sorted)])
         ELSE Append(sorted, r)

RECURSIVE sort_by_start_line(_)
sort_by_start_line(rs) ==
    IF rs = <<>> THEN <<>>
    ELSE InsertByStartLine(sort_by_start_line(SubSeq(rs, 1, Len(rs) - 1)), rs[Len(rs)])

\* The loop over root_node.children: the symbols pushed for children 1..i.
RECURSIVE SymbolsUpTo(_, _, _)
SymbolsUpTo(nodes, allow_tests, i) ==
    IF i = 0 THEN <<>>
    ELSE LET before == SymbolsUpTo(nodes, allow_tests, i - 1)
         IN  IF ~allow_tests /\ is_test_node(nodes[i]) THEN before
             ELSE IF is_acceptable_parent(nodes[i])
                     /\ IsSome(get_symbol_signature(nodes[i]))
                  THEN Append(before, SymbolResult(nodes, i))
                  ELSE before

extract_all_symbols_from_file(f, allow_tests) ==
    IF ~f.exists THEN [status |-> "Err", symbols |-> <<>>]
    ELSE IF f.extension # "go" THEN [status |-> "Err", symbols |-> <<>>]
    ELSE IF ~f.parser_ok THEN [status |-> "Err", symbols |-> <<>>]
    ELSE IF ~f.parse_ok THEN [status |-> "Err", symbols |-> <<>>]
    ELSE [status |-> "Ok",
          symbols |-> sort_by_start_line(SymbolsUpTo(f.nodes, allow_tests, Len(f.nodes)))]

\* The map overwritten instead of pushed to.
RECURSIVE group_symbols_overwriting(_)
group_symbols_overwriting(symbols) ==
    IF symbols = <<>> THEN <<>>
    ELSE LET symbol == symbols[Len(symbols)]
             grouped == group_symbols_overwriting(SubSeq(symbols, 1, Len(symbols) - 1))
         IN  [t \in DOMAIN grouped \cup {symbol.node_type} |->
                 IF t = symbol.node_type THEN <<symbol>> ELSE grouped[t]]

\* for symbol in symbols { grouped.entry(node_type).or_insert_with(Vec::new).push(symbol) }
\* The map is a function from the node types met to the vectors.
RECURSIVE group_symbols_by_type(_)
group_symbols_by_type(symbols) ==
    IF symbols = <<>> THEN <<>>
    ELSE LET symbol == symbols[Len(symbols)]
             grouped == group_symbols_by_type(SubSeq(symbols, 1, Len(symbols) - 1))
         IN  [t \in DOMAIN grouped \cup {symbol.node_type} |->
                 IF t = symbol.node_type
                 THEN (IF t \in DOMAIN grouped THEN Append(grouped[t], symbol) ELSE <<symbol>>)
                 ELSE grouped[t]]

InitOutline ==
    /\ ol_file \in OutlineFiles
    /\ ol_allow_tests \in BOOLEAN
    /\ ol_ret = [status |-> "NotCalled", symbols |-> <<>>]
    /\ ol_grouped = None
    /\ IdlePF /\ IdleHE /\ IdleSearch /\ IdleQuery /\ IdleGo /\ IdleFormatter /\ IdlePool /\ IdleTree

CallExtractAllSymbols ==
    /\ ol_ret.status = "NotCalled"
    /\ ol_ret' = extract_all_symbols_from_file(ol_file, ol_allow_tests)
    /\ UNCHANGED <<ol_file, ol_allow_tests, ol_grouped>>
    /\ UNCHANGED <<pfVars, heVars, hsVars, qVars, goVars, fmtVars, ppVars, fpVars>>

\* handle_outline goes on with a non-empty symbol list:
\* let grouped = group_symbols_by_type(symbols);
CallGroupSymbols ==
    /\ ol_ret.status = "Ok"
    /\ ol_ret.symbols # <<>>
    /\ ol_grouped = None
    /\ ol_grouped' = Some(group_symbols_by_type(ol_ret.symbols))
    /\ UNCHANGED <<ol_file, ol_allow_tests, ol_ret>>
    /\ UNCHANGED <<pfVars, heVars, hsVars, qVars, goVars, fmtVars, ppVars, fpVars>>

NextOutline == CallExtractAllSymbols \/ CallGroupSymbols

SpecOutline == InitOutline /\ [][NextOutline]_vars

\* A root-level function_declaration whose name starts with "Test".
IsGoTestFunction(n) ==
    /\ n.kind = "function_declaration"
    /\ IsSome(n.name)
    /\ Len(Unwrap(n.name)) >= 4
    /\ SubSeq(Unwrap(n.name), 1, 4) = <<"T", "e", "s", "t">>

HasEntryFor(symbols, nodes, i) ==
    \E k \in 1..Len(symbols) :
        symbols[k].lines = NodeLines(nodes, i) /\ symbols[k].node_type = nodes[i].kind

\* C11: the outline has one entry for every root-level node that is an
\* acceptable parent and is not filtered as a test node.
C11_EveryTopLevelSymbol ==
    ol_ret.status = "Ok" =>
        \A i \in 1..Len(ol_file.nodes) :
            (/\ is_acceptable_parent(ol_file.nodes[i])
             /\ ~(~ol_allow_tests /\ is_test_node(ol_file.nodes[i])))
            => HasEntryFor(ol_ret.symbols, ol_file.nodes, i)

\* C12: without allow_tests no root-level Go function named Test... is
\* returned and nothing else is removed; with allow_tests the filter is
\* bypassed; the filtered result is the unfiltered one without those functions.
C12_OnlyTestFunctionsFiltered ==
    ol_ret.status = "Ok" =>
        LET nodes == ol_file.nodes
            unfiltered == extract_all_symbols_from_file(ol_file, TRUE).symbols
            AtTestFunction(r) ==
                \E i \in 1..Len(nodes) :
                    IsGoTestFunction(nodes[i]) /\ r.lines = NodeLines(nodes, i)
            NotAtTestFunction(r) == ~AtTestFunction(r)
        IN  /\ ol_allow_tests => ol_ret.symbols = unfiltered
            /\ ol_allow_tests =>
                  \A i \in 1..Len(nodes) :
                      IsGoTestFunction(nodes[i]) => HasEntryFor(ol_ret.symbols, nodes, i)
            /\ ~ol_allow_tests =>
                  /\ \A k \in 1..Len(ol_ret.symbols) : ~AtTestFunction(ol_ret.symbols[k])
                  /\ ol_ret.symbols = SelectSeq(unfiltered, NotAtTestFunction)
                  /\ \A k \in 1..Len(ol_ret.symbols) :
                        \E j \in 1..Len(unfiltered) : unfiltered[j] = ol_ret.symbols[k]

\* C12 witness: a file with a Test function and another function, outlined
\* without allow_tests: the other function is returned.
C12_Witness ==
    /\ ol_ret.status = "Ok"
    /\ ~ol_allow_tests
    /\ \E i \in 1..Len(ol_file.nodes) : IsGoTestFunction(ol_file.nodes[i])
    /\ Len(ol_ret.symbols) = 1
    /\ ol_ret.symbols[1].node_type = "function_declaration"

RECURSIVE SumOfGroupSizes(_, _)
SumOfGroupSizes(grouped, types) ==
    IF types = {} THEN 0
    ELSE LET t == CHOOSE x \in types : TRUE
         IN  Len(grouped[t]) + SumOfGroupSizes(grouped, types \ {t})

\* C26: group_symbols_by_type partitions its input: every symbol is in the
\* group of its own node_type and in no other, no group is empty, the group
\* sizes sum to the input length, and a group keeps the input order; on the
\* output of extract_all_symbols_from_file every group is therefore in
\* non-decreasing start-line order.
C26_GroupsPartition ==
    IsSome(ol_grouped) =>
        LET grouped == Unwrap(ol_grouped)
            symbols == ol_ret.symbols
        IN  /\ DOMAIN grouped = {symbols[k].node_type : k \in 1..Len(symbols)}
            /\ \A t \in DOMAIN grouped :
                  LET OfType(r) == r.node_type = t
                  IN  /\ grouped[t] # <<>>
                      /\ grouped[t] = SelectSeq(symbols, OfType)
                      /\ \A i, j \in 1..Len(grouped[t]) :
                            i < j => grouped[t][i].lines[1] <= grouped[t][j].lines[1]
            /\ SumOfGroupSizes(grouped, DOMAIN grouped) = Len(symbols)

\* C26 witness: two functions of a file, both in the one group of their
\* type, the earlier one first.
C26_Witness ==
    /\ IsSome(ol_grouped)
    /\ Len(ol_ret.symbols) = 2
    /\ DOMAIN Unwrap(ol_grouped) = {"function_declaration"}
    /\ Len(Unwrap(ol_grouped)["function_declaration"]) = 2
    /\ Unwrap(ol_grouped)["function_declaration"][1].lines[1]
          < Unwrap(ol_grouped)["function_declaration"][2].lines[1]


\* ========================================================= handle_search
\* A pattern either passes the strict validator, or only parses as a lenient
\* query, or does not parse at all.
Patterns == {"strict_ok", "lenient_only", "unparsable"}
SearchFormats == {"color", "json", "outline-xml"}

SearchParams ==
    [strict_elastic_syntax : BOOLEAN, pattern : Patterns, exact : BOOLEAN,
     format : SearchFormats]

validate_strict_elastic_syntax(pattern) == pattern = "strict_ok"

\* create_query_plan(query, exact): the plan of a query that parses.
create_query_plan(pattern, exact) ==
    IF pattern = "unparsable" THEN None ELSE Some([exact_mode |-> exact])

\* Paths are sequences of components; the walker names a file "./<name>".
current_dir == <<"/", "w">>
SkippedPaths == {<<".", "a.rs">>, <<".", "b.rs">>}
canonicalize(path) == current_dir \o SelectSeq(path, LAMBDA c : c # ".")
strip_prefix(abs_path, dir) == SubSeq(abs_path, Len(dir) + 1, Len(abs_path))
relative_path(path, files_gone) ==
    IF files_gone THEN path ELSE strip_prefix(canonicalize(path), current_dir)

KeywordLists ==
    {<<"k1">>, <<"k1", "k1">>, <<"k1", "k2">>, <<"k2">>}
SkippedEntries == [file : SkippedPaths, matched_keywords : OptionOf(KeywordLists)]
SkippedLists == UNION { [1..k -> SkippedEntries] : k \in 0..MaxSkipped }

\* What perform_probe returns (LimitedSearchResults), or its error.  The
\* session cache filtered no block, none counted or one; early termination
\* left no file unprocessed or one.
ProbeAnswers ==
    {[status |-> "Err", has_results |-> FALSE, skipped_files |-> <<>>,
      limits_applied |-> FALSE, files_gone |-> FALSE,
      cached_blocks_skipped |-> None, files_skipped_early_termination |-> None]}
    \cup [status : {"Ok"}, has_results : BOOLEAN, skipped_files : SkippedLists,
          limits_applied : BOOLEAN, files_gone : BOOLEAN,
          cached_blocks_skipped : OptionOf(0..1),
          files_skipped_early_termination : OptionOf({1})]

IsTextFormat(fmt) == fmt # "json" /\ fmt # "xml"

\* file_matches: per relative path, the set of keywords and the entry count.
KeywordsOf(entry) ==
    IF IsSome(entry.matched_keywords)
    THEN {Unwrap(entry.matched_keywords)[k] : k \in 1..Len(Unwrap(entry.matched_keywords))}
    ELSE {}
file_matches(skipped, files_gone) ==
    LET keys == {relative_path(skipped[k].file, files_gone) : k \in 1..Len(skipped)}
        of(key) == {k \in 1..Len(skipped) : relative_path(skipped[k].file, files_gone) = key}
    IN  [key \in keys |->
            <<UNION {KeywordsOf(skipped[k]) : k \in of(key)}, Cardinality(of(key))>>]

file_list(skipped, files_gone) ==
    LET fm == file_matches(skipped, files_gone)
    IN  {<<key, Cardinality(fm[key][1]), fm[key][2]>> : key \in DOMAIN fm}

ListedBefore_ascending(a, b) == a[2] < b[2] \/ (a[2] = b[2] /\ a[3] < b[3])

\* b.1.cmp(&a.1).then(b.2.cmp(&a.2)) is Less
ListedBefore(a, b) == a[2] > b[2] \/ (a[2] = b[2] /\ a[3] > b[3])

\* The orders file_list.sort_by can leave: the map is iterated in any order
\* and the sort is stable.
SortedFileLists(list) ==
    {l \in [1..Cardinality(list) -> list] :
        /\ \A i, j \in 1..Cardinality(list) : i # j => l[i] # l[j]
        /\ \A i, j \in 1..Cardinality(list) : i < j => ~ListedBefore(l[j], l[i])}

Event(name, arg) == [event |-> name, arg |-> arg]

InitSearch ==
    /\ hs_params \in SearchParams
    /\ hs_probe \in ProbeAnswers
    /\ hs_pc = "validate"
    /\ hs_out = <<>>
    /\ hs_ret = "none"
    /\ IdlePF /\ IdleHE /\ IdleOutline /\ IdleQuery /\ IdleGo /\ IdleFormatter /\ IdlePool /\ IdleTree

Validate_never ==
    /\ hs_pc = "validate"
    /\ hs_pc' = "probe"
    /\ UNCHANGED <<hs_params, hs_probe, hs_out, hs_ret>>
    /\ UNCHANGED <<pfVars, heVars, olVars, qVars, goVars, fmtVars, ppVars, fpVars>>

\* if params.strict_elastic_syntax { validate_strict_elastic_syntax(..)?; }
Validate ==
    /\ hs_pc = "validate"
    /\ IF hs_params.strict_elastic_syntax
          /\ ~validate_strict_elastic_syntax(hs_params.pattern)
       THEN hs_ret' = "Err" /\ hs_pc' = "done"
       ELSE hs_ret' = hs_ret /\ hs_pc' = "probe"
    /\ UNCHANGED <<hs_params, hs_probe, hs_out>>
    /\ UNCHANGED <<pfVars, heVars, olVars, qVars, goVars, fmtVars, ppVars, fpVars>>

\* let limited_results = perform_probe(&search_options)?;
PerformProbe ==
    /\ hs_pc = "probe"
    /\ hs_out' = Append(hs_out, Event("perform_probe", [exact |-> hs_params.exact]))
    /\ IF hs_probe.status = "Err"
       THEN hs_ret' = "Err" /\ hs_pc' = "done"
       ELSE hs_ret' = hs_ret /\ hs_pc' = "print"
    /\ UNCHANGED <<hs_params, hs_probe>>
    /\ UNCHANGED <<pfVars, heVars, olVars, qVars, goVars, fmtVars, ppVars, fpVars>>

unwrap_or_1(o) == IF IsSome(o) THEN Unwrap(o) ELSE 1

\* unwrap_or(0) on an Option<usize>
unwrap_or_0(o) == IF IsSome(o) THEN Unwrap(o) ELSE 0

\* The rest of handle_search: build the plan, print the results or what is
\* said of an empty result list, the limits and the skipped files with the
\* hint on further pages, the blocks the session cache filtered, the tip,
\* and return Ok(()).
PrintResults ==
    /\ hs_pc = "print"
    /\ LET query_plan == create_query_plan(hs_params.pattern, FALSE)
           fmt == hs_params.format
           formatted == <<Event("format_and_print_search_results", query_plan)>>
           cached_skipped == unwrap_or_0(hs_probe.cached_blocks_skipped)
           empty_text == IF cached_skipped > 0
                         THEN <<Event("filtered_already_seen", cached_skipped),
                                Event("all_results_retrieved", None)>>
                         ELSE <<Event("no_results", None)>>
           lists == hs_probe.skipped_files # <<>> /\ fmt # "json" /\ fmt # "xml"
                    /\ fmt # "outline-xml" /\ hs_probe.limits_applied
           total_skipped == Len(hs_probe.skipped_files)
                            + unwrap_or_0(hs_probe.files_skipped_early_termination)
           hint == IF total_skipped > 0
                   THEN <<Event("more_results_hint", None)>> ELSE <<>>
           cached == IF cached_skipped > 0
                     THEN <<Event("filtered_already_seen", cached_skipped)>> ELSE <<>>
           tip == IF hs_probe.has_results /\ IsTextFormat(fmt)
                  THEN <<Event("tip", None)>> ELSE <<>>
       IN  IF ~hs_probe.has_results
           THEN hs_out' = hs_out \o (IF ~IsTextFormat(fmt) THEN formatted ELSE empty_text)
           ELSE IF lists
                THEN \E l \in SortedFileLists(file_list(hs_probe.skipped_files,
                                                        hs_probe.files_gone)) :
                        hs_out' = hs_out \o formatted
                                  \o <<Event("skipped_total", total_skipped),
                                       Event("skipped_listing", l)>>
                                  \o hint \o cached \o tip
                ELSE hs_out' = hs_out \o formatted \o cached \o tip
    /\ hs_ret' = "Ok"
    /\ hs_pc' = "done"
    /\ UNCHANGED <<hs_params, hs_probe>>
    /\ UNCHANGED <<pfVars, heVars, olVars, qVars, goVars, fmtVars, ppVars, fpVars>>

NextSearch == Validate \/ PerformProbe \/ PrintResults

SpecSearch == InitSearch /\ [][NextSearch]_vars

HasEvent(name) == \E k \in 1..Len(hs_out) : hs_out[k].event = name
EventArg(name) == hs_out[CHOOSE k \in 1..Len(hs_out) : hs_out[k].event = name].arg

\* C15: the query plan handed to the result formatter has exact_mode = true
\* exactly when the search was run with --exact.
C15_PlanCarriesExact ==
    \A k \in 1..Len(hs_out) :
        (hs_out[k].event = "format_and_print_search_results" /\ IsSome(hs_out[k].arg))
        => Unwrap(hs_out[k].arg).exact_mode = hs_params.exact

\* C16: with --strict-elastic-syntax and a pattern that fails validation,
\* handle_search returns the error with perform_probe never called and
\* nothing printed.
C16_SyntaxErrorBeforeProbe ==
    (hs_params.strict_elastic_syntax /\ hs_params.pattern # "strict_ok") =>
        /\ hs_out = <<>>
        /\ hs_pc # "probe" /\ hs_pc # "print"
        /\ hs_pc = "done" => hs_ret = "Err"

\* C16 witness: a strict run on an invalid pattern has returned its error.
C16_Witness ==
    /\ hs_params.strict_elastic_syntax /\ hs_params.pattern = "lenient_only"
    /\ hs_probe.status = "Ok" /\ hs_probe.has_results
    /\ hs_pc = "done" /\ hs_ret = "Err"

\* The skipped entries of one file, the file being named by its path.
SkippedOf(path) ==
    {k \in 1..Len(hs_probe.skipped_files) : hs_probe.skipped_files[k].file = path}
SkippedFilesNamed == {hs_probe.skipped_files[k].file : k \in 1..Len(hs_probe.skipped_files)}
RECURSIVE SumOfTotals(_, _)
SumOfTotals(l, n) == IF n = 0 THEN 0 ELSE l[n][3] + SumOfTotals(l, n - 1)

SearchPrinted == hs_pc = "done" /\ hs_ret = "Ok" /\ hs_probe.status = "Ok"
CachedSkipped ==
    IF hs_probe.cached_blocks_skipped = {} THEN 0
    ELSE CHOOSE n \in hs_probe.cached_blocks_skipped : TRUE

\* C25: with a text format and an empty result list, "All results retrieved
\* for this query" is printed if and only if cached_blocks_skipped > 0, and
\* "No results found." otherwise; never both.
C25_ExhaustionSignal ==
    (SearchPrinted /\ IsTextFormat(hs_params.format) /\ ~hs_probe.has_results) =>
        /\ HasEvent("all_results_retrieved") <=> CachedSkipped > 0
        /\ HasEvent("no_results") <=> ~(CachedSkipped > 0)
        /\ ~(HasEvent("all_results_retrieved") /\ HasEvent("no_results"))

\* C25 witness: an empty page of a session whose cache filtered a block ends
\* with the exhaustion signal.
C25_Witness ==
    /\ SearchPrinted /\ hs_params.format = "color" /\ ~hs_probe.has_results
    /\ hs_probe.cached_blocks_skipped = {1}
    /\ HasEvent("all_results_retrieved")
    /\ ~HasEvent("no_results")

\* The files skipped in all: the skipped_files entries and the files early
\* termination left unprocessed.
TotalSkipped ==
    Len(hs_probe.skipped_files)
    + (IF hs_probe.files_skipped_early_termination = {} THEN 0
       ELSE CHOOSE n \in hs_probe.files_skipped_early_termination : TRUE)

\* C27: with a text format, whenever limits were applied and the total
\* number of skipped files is greater than zero, the hint "More results may
\* be available" is printed, also when skipped_files is empty and also when
\* the result list is empty.
C27_PaginationHint ==
    (/\ SearchPrinted
     /\ hs_params.format \notin {"json", "xml", "outline-xml"}
     /\ hs_probe.limits_applied
     /\ TotalSkipped > 0)
    => HasEvent("more_results_hint")


\* ============================================== query: language aliases
\* A language value is the sequence of its characters.  The values the
\* --language option of the query command accepts (its value_parser).
AcceptedLanguages ==
    {<<"r", "u", "s", "t">>, <<"r", "s">>,
     <<"j", "a", "v", "a", "s", "c", "r", "i", "p", "t">>, <<"j", "s">>,
     <<"j", "s", "x">>, <<"t", "y", "p", "e", "s", "c", "r", "i", "p", "t">>,
     <<"t", "s">>, <<"t", "s", "x">>, <<"p", "y", "t", "h", "o", "n">>,
     <<"p", "y">>, <<"g", "o">>, <<"c">>, <<"h">>, <<"c", "p", "p">>,
     <<"c", "c">>, <<"c", "x", "x">>, <<"h", "p", "p">>, <<"h", "x", "x">>,
     <<"j", "a", "v", "a">>, <<"r", "u", "b", "y">>, <<"r", "b">>,
     <<"p", "h", "p">>, <<"s", "w", "i", "f", "t">>,
     <<"c", "s", "h", "a", "r", "p">>, <<"c", "s">>, <<"y", "a", "m", "l">>,
     <<"y", "m", "l">>}

UpperCase == <<"A", "B", "C", "D", "E", "F", "G", "H", "I", "J", "K", "L", "M",
               "N", "O", "P", "Q", "R", "S", "T", "U", "V", "W", "X", "Y", "Z">>
LowerCase == <<"a", "b", "c", "d", "e", "f", "g", "h", "i", "j", "k", "l", "m",
               "n", "o", "p", "q", "r", "s", "t", "u", "v", "w", "x", "y", "z">>
char_to_lowercase(c) ==
    IF \E k \in 1..26 : UpperCase[k] = c
    THEN LowerCase[CHOOSE k \in 1..26 : UpperCase[k] = c]
    ELSE c
to_lowercase(lang) == [k \in 1..Len(lang) |-> char_to_lowercase(lang[k])]

\* match lang.to_lowercase().as_str() { "rs" => "rust", ..., _ => lang }
normalize_language(lang) ==
    LET l == to_lowercase(lang)
    IN  CASE l = <<"r", "s">> -> <<"r", "u", "s", "t">>
          [] l = <<"j", "s">> -> <<"j", "a", "v", "a", "s", "c", "r", "i", "p", "t">>
          [] l = <<"j", "s", "x">> -> <<"j", "a", "v", "a", "s", "c", "r", "i", "p", "t">>
          [] l = <<"t", "s">> -> <<"t", "y", "p", "e", "s", "c", "r", "i", "p", "t">>
          [] l = <<"t", "s", "x">> -> <<"t", "y", "p", "e", "s", "c", "r", "i", "p", "t">>
          [] l = <<"p", "y">> -> <<"p", "y", "t", "h", "o", "n">>
          [] l = <<"h">> -> <<"c">>
          [] l = <<"c", "c">> -> <<"c", "p", "p">>
          [] l = <<"c", "x", "x">> -> <<"c", "p", "p">>
          [] l = <<"h", "p", "p">> -> <<"c", "p", "p">>
          [] l = <<"h", "x", "x">> -> <<"c", "p", "p">>
          [] l = <<"r", "b">> -> <<"r", "u", "b", "y">>
          [] l = <<"c", "s">> -> <<"c", "s", "h", "a", "r", "p">>
          [] OTHER -> lang

QueryArgs ==
    [language : OptionOf(AcceptedLanguages), allow_tests : BOOLEAN,
     no_gitignore : BOOLEAN]

InitQuery ==
    /\ q_lang \in QueryArgs
    /\ q_norm = [called |-> FALSE, language |-> None]
    /\ IdlePF /\ IdleHE /\ IdleOutline /\ IdleSearch /\ IdleGo /\ IdleFormatter /\ IdlePool /\ IdleTree

\* handle_query(.., language.as_deref().map(|lang| ..), ..)
CallHandleQuery ==
    /\ ~q_norm.called
    /\ q_norm' = [called |-> TRUE,
                  language |-> IF IsSome(q_lang.language)
                               THEN Some(normalize_language(Unwrap(q_lang.language)))
                               ELSE None]
    /\ UNCHANGED <<q_lang, pfVars, heVars, olVars, hsVars, goVars, fmtVars, ppVars, fpVars>>

NextQuery == CallHandleQuery

SpecQuery == InitQuery /\ [][NextQuery]_vars

\* The accepted values, grouped by the language they name; the first value
\* of each group is the language's canonical name.
LanguageGroups ==
    {{<<"r", "u", "s", "t">>, <<"r", "s">>},
     {<<"j", "a", "v", "a", "s", "c", "r", "i", "p", "t">>, <<"j", "s">>, <<"j", "s", "x">>},
     {<<"t", "y", "p", "e", "s", "c", "r", "i", "p", "t">>, <<"t", "s">>, <<"t", "s", "x">>},
     {<<"p", "y", "t", "h", "o", "n">>, <<"p", "y">>},
     {<<"g", "o">>},
     {<<"c">>, <<"h">>},
     {<<"c", "p", "p">>, <<"c", "c">>, <<"c", "x", "x">>, <<"h", "p", "p">>, <<"h", "x", "x">>},
     {<<"j", "a", "v", "a">>},
     {<<"r", "u", "b", "y">>, <<"r", "b">>},
     {<<"p", "h", "p">>},
     {<<"s", "w", "i", "f", "t">>},
     {<<"c", "s", "h", "a", "r", "p">>, <<"c", "s">>},
     {<<"y", "a", "m", "l">>, <<"y", "m", "l">>}}
CanonicalNames ==
    {<<"r", "u", "s", "t">>,
     <<"j", "a", "v", "a", "s", "c", "r", "i", "p", "t">>,
     <<"t", "y", "p", "e", "s", "c", "r", "i", "p", "t">>,
     <<"p", "y", "t", "h", "o", "n">>, <<"g", "o">>, <<"c">>,
     <<"c", "p", "p">>, <<"j", "a", "v", "a">>, <<"r", "u", "b", "y">>,
     <<"p", "h", "p">>, <<"s", "w", "i", "f", "t">>,
     <<"c", "s", "h", "a", "r", "p">>, <<"y", "a", "m", "l">>}
GroupOf(v) == CHOOSE g \in LanguageGroups : v \in g
CanonicalOf(v) == CHOOSE c \in CanonicalNames : c \in GroupOf(v)

\* C19: every accepted language value is normalised to the canonical name of
\* its language, so two values naming the same language normalise alike and a
\* canonical name is left unchanged.
C19_AliasesNormalised ==
    (q_norm.called /\ IsSome(q_lang.language)) =>
        /\ q_norm.language = Some(CanonicalOf(Unwrap(q_lang.language)))
        /\ \A v \in GroupOf(Unwrap(q_lang.language)) :
              normalize_language(v) = Unwrap(q_norm.language)


\* ================================================= dry-run formatting
\* The formats the extract command accepts.
ExtractFormats ==
    {"markdown", "plain", "json", "xml", "color", "outline-xml", "outline-diff"}

\* The results handed to the formatter: what it reads of a SearchResult.
FormatterResults ==
    {[file |-> "a.rs", lines |-> l, node_type |-> t, code |-> LinesOf(l[1], l[2])] :
        l \in {<<1, 1>>, <<1, 2>>}, t \in {"file", "context", "range"}}
FormatterLists == UNION { [1..k -> FormatterResults] : k \in 0..MaxFormatted }

InitFormatter ==
    /\ fmt_in \in [results : FormatterLists, format : ExtractFormats, is_dry_run : BOOLEAN]
    /\ fmt_out = None
    /\ IdlePF /\ IdleHE /\ IdleOutline /\ IdleSearch /\ IdleQuery /\ IdleGo /\ IdlePool /\ IdleTree

\* handle_extract's choice between the two public entry points.
CallFormat ==
    /\ fmt_out = None
    /\ fmt_out' = IF fmt_in.is_dry_run
                  THEN Some(format_extraction_dry_run(fmt_in.results, fmt_in.format))
                  ELSE Some(format_extraction_results(fmt_in.results, fmt_in.format))
    /\ UNCHANGED <<fmt_in, pfVars, heVars, olVars, hsVars, qVars, goVars, ppVars, fpVars>>

NextFormatter == CallFormat

SpecFormatter == InitFormatter /\ [][NextFormatter]_vars

\* C17: in dry-run mode the formatted output of every accepted format shows
\* no block's code and no byte or token totals.
C17_DryRunShowsNoCode ==
    (IsSome(fmt_out) /\ fmt_in.is_dry_run) =>
        LET out == Unwrap(fmt_out)
        IN  /\ \A k \in 1..Len(out.entries) : out.entries[k].code = None
            /\ IsSome(out.summary) =>
                  /\ Unwrap(out.summary).total_bytes = None
                  /\ Unwrap(out.summary).total_tokens = None

\* ====================================================== the parser pool
\* extract_symbol_signature_for_extract and extract_all_symbols_from_file
\* step by step, with the parsers they take from the pool and hand back.
\* A call is given by what decides its path: the symbols flag, whether the
\* file exists, whether its extension has a language, the number of lines of
\* its content, and whether the pool yields a parser and the parser a tree.
PoolCalls ==
    {c \in [function : {"extract_symbol_signature_for_extract",
                        "extract_all_symbols_from_file"},
            symbols : BOOLEAN, exists : BOOLEAN,
            supported : BOOLEAN, line_count : 0..MaxLines, parser_ok : BOOLEAN,
            parse_ok : BOOLEAN] :
        \* the signature helper is handed the content of a file that was read
        /\ c.function = "extract_symbol_signature_for_extract" => c.exists
        /\ c.function = "extract_all_symbols_from_file" => ~c.symbols}

\* The pool hands out a parser (one it holds or a new one) and takes it back.
get_pooled_parser(pool) == [pool EXCEPT !.obtained = @ + 1]
return_pooled_parser(pool) == [pool EXCEPT !.returned = @ + 1]

InitPool ==
    /\ pp_call \in PoolCalls
    /\ pp_pc = "start"
    /\ pp_pool = [obtained |-> 0, returned |-> 0]
    /\ pp_ret = "none"
    /\ IdlePF /\ IdleHE /\ IdleOutline /\ IdleSearch /\ IdleQuery /\ IdleGo /\ IdleFormatter
    /\ IdleTree

\* The checks before the pool is asked: the symbols flag and the language
\* of the extension (signature helper); the file and its language (outline).
EnterFunction ==
    /\ pp_pc = "start"
    /\ IF pp_call.function = "extract_symbol_signature_for_extract"
       THEN IF ~pp_call.symbols \/ ~pp_call.supported
            THEN pp_pc' = "returned" /\ pp_ret' = "None"
            ELSE pp_pc' = "get" /\ pp_ret' = pp_ret
       ELSE IF ~pp_call.exists \/ ~pp_call.supported
            THEN pp_pc' = "returned" /\ pp_ret' = "Err"
            ELSE pp_pc' = "get" /\ pp_ret' = pp_ret
    /\ UNCHANGED <<pp_call, pp_pool>>
    /\ UNCHANGED <<pfVars, heVars, olVars, hsVars, qVars, goVars, fmtVars, fpVars>>

\* if let Ok(mut parser) = get_pooled_parser(extension) { .. } else { .. }
GetParser ==
    /\ pp_pc = "get"
    /\ IF pp_call.parser_ok
       THEN /\ pp_pool' = get_pooled_parser(pp_pool)
            /\ pp_pc' = "parse"
            /\ pp_ret' = pp_ret
       ELSE /\ pp_pool' = pp_pool
            /\ pp_pc' = "returned"
            /\ pp_ret' = IF pp_call.function = "extract_symbol_signature_for_extract"
                         THEN "None" ELSE "Err"
    /\ UNCHANGED pp_call
    /\ UNCHANGED <<pfVars, heVars, olVars, hsVars, qVars, goVars, fmtVars, fpVars>>

\* if let Some(tree) = parser.parse(content, None) { .. } else { .. }
ParseContent ==
    /\ pp_pc = "parse"
    /\ pp_pc' = IF pp_call.parse_ok THEN "parsed" ELSE "parse_failed"
    /\ UNCHANGED <<pp_call, pp_pool, pp_ret>>
    /\ UNCHANGED <<pfVars, heVars, olVars, hsVars, qVars, goVars, fmtVars, fpVars>>

\* The work on the tree.  The signature helper first clamps the line range:
\* start_line.clamp(1, lines.len()) panics on a content without lines.
UseTree ==
    /\ pp_pc = "parsed"
    /\ IF pp_call.function = "extract_symbol_signature_for_extract"
          /\ ClampPanics(1, pp_call.line_count)
       THEN pp_pc' = "panicked"
       ELSE pp_pc' = "used"
    /\ UNCHANGED <<pp_call, pp_pool, pp_ret>>
    /\ UNCHANGED <<pfVars, heVars, olVars, hsVars, qVars, goVars, fmtVars, fpVars>>

\* return_pooled_parser(extension, parser), after the tree was used and
\* after a failed parse, and the return of the function.
ReturnParser ==
    /\ pp_pc \in {"used", "parse_failed"}
    /\ pp_pool' = return_pooled_parser(pp_pool)
    /\ pp_ret' = IF pp_call.function = "extract_symbol_signature_for_extract"
                 THEN (IF pp_pc = "used" THEN "signature" ELSE "None")
                 ELSE (IF pp_pc = "used" THEN "Ok" ELSE "Err")
    /\ pp_pc' = "returned"
    /\ UNCHANGED pp_call
    /\ UNCHANGED <<pfVars, heVars, olVars, hsVars, qVars, goVars, fmtVars, fpVars>>

NextPool == EnterFunction \/ GetParser \/ ParseContent \/ UseTree \/ ReturnParser

SpecPool == InitPool /\ [][NextPool]_vars

\* C23: in both functions every parser obtained from the pool is handed back
\* exactly once by the time the function is left, after a successful parse
\* and after a failed one alike, and no parser is handed back that was not
\* obtained.
C23_ParserHandedBack ==
    /\ pp_pool.returned <= pp_pool.obtained
    /\ pp_pc \in {"returned", "panicked"} => pp_pool.returned = pp_pool.obtained

\* ================================================= find_parent_function
\* A syntax tree: node 1 is the root, every other node has an earlier node
\* as its parent (Node::parent); each node has a kind (Node::kind).
\* func_literal is a function-like kind the handler does not look for.
Trees ==
    UNION { {[parent |-> p, kind |-> k] :
                p \in {q \in [1..n -> OptionOf(1..n)] :
                          /\ q[1] = None
                          /\ \A i \in 2..n : IsSome(q[i]) /\ Unwrap(q[i]) < i},
                k \in [1..n -> {"function_declaration", "method_declaration",
                                "func_literal", "block"}]} : n \in 1..MaxTree }

is_parent_function_no_methods(k) == k = "function_declaration"

\* parent.kind() == "function_declaration" || parent.kind() == "method_declaration"
is_parent_function(k) == k = "function_declaration" \/ k = "method_declaration"

InitTree ==
    /\ fp_tree \in Trees
    /\ fp_node \in 1..Len(fp_tree.kind)
    /\ fp_current = fp_node
    /\ fp_ret = [status |-> "walking", value |-> None]
    /\ IdlePF /\ IdleHE /\ IdleOutline /\ IdleSearch /\ IdleQuery /\ IdleGo /\ IdleFormatter
    /\ IdlePool

\* One turn of while let Some(parent) = current.parent() { .. }
LoopStep ==
    /\ fp_ret.status = "walking"
    /\ IsSome(fp_tree.parent[fp_current])
    /\ LET up == Unwrap(fp_tree.parent[fp_current])
       IN  IF is_parent_function(fp_tree.kind[up])
           THEN fp_ret' = [status |-> "done", value |-> Some(up)] /\ fp_current' = fp_current
           ELSE fp_ret' = fp_ret /\ fp_current' = up
    /\ UNCHANGED <<fp_tree, fp_node>>
    /\ UNCHANGED <<pfVars, heVars, olVars, hsVars, qVars, goVars, fmtVars, ppVars>>

\* current has no parent: the loop ends and the function returns None.
LoopExit ==
    /\ fp_ret.status = "walking"
    /\ fp_tree.parent[fp_current] = None
    /\ fp_ret' = [status |-> "done", value |-> None]
    /\ UNCHANGED <<fp_tree, fp_node, fp_current>>
    /\ UNCHANGED <<pfVars, heVars, olVars, hsVars, qVars, goVars, fmtVars, ppVars>>

NextTree == LoopStep \/ LoopExit

\* The function runs on its caller's thread: it takes its next step.
SpecTree == InitTree /\ [][NextTree]_vars /\ WF_vars(NextTree)

\* The strict ancestors of a node, and those of a function kind.
RECURSIVE AncestorsOf(_, _)
AncestorsOf(tree, n) ==
    IF tree.parent[n] = {} THEN {}
    ELSE tree.parent[n] \cup AncestorsOf(tree, CHOOSE a \in tree.parent[n] : TRUE)
FunctionAncestors(tree, n) ==
    {a \in AncestorsOf(tree, n) :
        tree.kind[a] \in {"function_declaration", "method_declaration"}}

FoundNearestFunction ==
    fp_ret.status = "done" =>
        LET fns == FunctionAncestors(fp_tree, fp_node)
        IN  /\ fp_ret.value # {fp_node}
            /\ fp_ret.value = {} <=> fns = {}
            /\ fns # {} =>
                  \E f \in fns :
                      /\ fp_ret.value = {f}
                      /\ \A g \in fns \ {f} : g \in AncestorsOf(fp_tree, f)

\* C24: on every node of a Go syntax tree find_parent_function terminates;
\* it returns the nearest strict ancestor of kind function_declaration or
\* method_declaration, None exactly when there is none, and never the node
\* it was called on.
C24_NearestFunctionAncestor ==
    /\ []FoundNearestFunction
    /\ <>(fp_ret.status = "done")

\* C24 witness: called on a function nested in a method below another
\* function, it has returned the method.
C24_Witness ==
    /\ fp_ret.status = "done"
    /\ fp_tree.kind[fp_node] = "function_declaration"
    /\ Cardinality(FunctionAncestors(fp_tree, fp_node)) = 2
    /\ \E f \in FunctionAncestors(fp_tree, fp_node) :
          fp_ret.value = {f} /\ fp_tree.kind[f] = "method_declaration"

====
